---- MODULE Spec2Model ----
(***************************************************************************)
(* A model of the id3v2 Tag (tag.go): the frame store (frames, sequences,  *)
(* framesCoords), the accessors built on it, frame serialisation and the   *)
(* rewrite of the file by Save, over a small POSIX-like file system.       *)
(***************************************************************************)
EXTENDS Integers, Sequences, FiniteSets, TLC

VARIABLES
    framesCoords,   \* Tag.framesCoords: id -> list of pending coordinates
    frames,         \* Tag.frames: id -> Framer
    sequences,      \* Tag.sequences: id -> the frames of the sequencer, in order
    file,           \* Tag.file: the handle (an index of handles) the Tag owns
    handles,        \* the *os.File objects: [ino, name, closed, off]
    originalSize,   \* Tag.originalSize
    paths,          \* directory: path -> index of the inode under it
    inodes,         \* inodes[i] is [content, mode] of inode i
    pc,             \* position inside Save ("idle" between calls, "panic" after a panic)
    sv,             \* Save's locals: frames, framesSize, newFile, originalFile
    ret,            \* what the last completed call returned
    initial,        \* history: the ids that had frames in the file when the Tag was built
    added,          \* history: per id, the frames callers passed to AddFrame, in order
    pre,            \* history: what the paths showed when the running Save was called
    nops,           \* number of mutator calls so far
    nsaves,         \* number of Save calls so far
    pool            \* bytesbufferpool: the arrays of its buffers, and which are in the pool

vars == <<framesCoords, frames, sequences, file, handles, originalSize, paths, inodes,
          pc, sv, ret, initial, added, pre, nops, nsaves, pool>>

tagVars == <<framesCoords, frames, sequences>>
fsVars == <<file, handles, originalSize, paths, inodes>>
histVars == <<initial, added, pre>>

----------------------------------------------------------------------------
(* Bounds of the model *)

\* mutator calls (AddFrame and the typed setters) in one behaviour
MaxOps == 3
\* Save calls in one behaviour
MaxSaves == 2
\* mutator calls in one behaviour with Save calls
MaxEdits == 2

\* buffers the pool makes before Get hands back only buffers Put to it
MaxBufs == 2

----------------------------------------------------------------------------
(* Go maps: a function whose DOMAIN is the set of keys that exist *)

EmptyMap == [k \in {} |-> 0]

MapSet(m, k, v) == [x \in (DOMAIN m) \cup {k} |-> IF x = k THEN v ELSE m[x]]

MapDelete(m, k) == [x \in (DOMAIN m) \ {k} |-> m[x]]

\* the order in which a range loop visits the keys of a map: any order
Orders(S) == {o \in [1..Cardinality(S) -> S] : \A i, j \in DOMAIN o : i # j => o[i] # o[j]}

----------------------------------------------------------------------------
(* Identifiers, the description table, frames *)

\* the ID3v2.4 description -> identifier table held in Tag.ids
ids ==
    [d \in {"Attached picture", "Comments", "Unsynchronised lyrics/text transcription",
            "Title/Songname/Content description",
            "Lead artist/Lead performer/Soloist/Performing group",
            "Album/Movie/Show title", "Recording time", "Content type"} |->
        CASE d = "Attached picture" -> "APIC"
          [] d = "Comments" -> "COMM"
          [] d = "Unsynchronised lyrics/text transcription" -> "USLT"
          [] d = "Title/Songname/Content description" -> "TIT2"
          [] d = "Lead artist/Lead performer/Soloist/Performing group" -> "TPE1"
          [] d = "Album/Movie/Show title" -> "TALB"
          [] d = "Recording time" -> "TDRC"
          [] d = "Content type" -> "TCON"]

\* t.ids[description]: the zero string for a description the table lacks
IdsAt(description) == IF description \in DOMAIN ids THEN ids[description] ELSE ""

ID(description) == IdsAt(description)

\* the bytes of an identifier as buf.WriteString writes them
IdBytes(id) ==
    CASE id = "APIC" -> <<65, 80, 73, 67>>
      [] id = "COMM" -> <<67, 79, 77, 77>>
      [] id = "USLT" -> <<85, 83, 76, 84>>
      [] id = "TIT2" -> <<84, 73, 84, 50>>
      [] id = "TPE1" -> <<84, 80, 69, 49>>
      [] id = "TALB" -> <<84, 65, 76, 66>>
      [] id = "TDRC" -> <<84, 68, 82, 67>>
      [] id = "TCON" -> <<84, 67, 79, 78>>
      [] id = "XXXX" -> <<88, 88, 88, 88>>
      [] OTHER -> <<>>

\* the bytes of the texts the model uses
TextBytes(s) ==
    CASE s = "" -> <<>>
      [] s = "a" -> <<97>>
      [] s = "b" -> <<98>>
      [] s = "cc" -> <<99, 99>>
      [] s = "A" -> <<65>>
      [] s = "B" -> <<66>>
      [] s = "C" -> <<67>>
      [] OTHER -> <<>>

Texts == {"", "a", "b", "cc", "A", "B", "C"}

\* key of the UTF-8 text encoding
ENUTF8 == 3

\* the nil Framer
Nil == [kind |-> "nil", Encoding |-> 0, Text |-> ""]

TextFrame(text) == [kind |-> "TextFrame", Encoding |-> ENUTF8, Text |-> text]

\* the zero TextFrame{}
ZeroTextFrame == [kind |-> "TextFrame", Encoding |-> 0, Text |-> ""]

\* a frame of another concrete type (picture, comment, lyrics), told apart by its description
PictureFrame(description) == [kind |-> "PictureFrame", Encoding |-> 0, Text |-> description]

\* Framer.Body(): the serialized body of a frame
Body(f) ==
    IF f.kind = "TextFrame" THEN <<f.Encoding>> \o TextBytes(f.Text)
    ELSE <<0, 0>> \o TextBytes(f.Text)

----------------------------------------------------------------------------
(* Collaborators of tag.go: size codec, tag header, sequencer, coordinate parser *)

\* util.FormSize: the four base-128 digits of n, most significant first
FormSize(n) == <<(n \div 2097152) % 128, (n \div 16384) % 128, (n \div 128) % 128, n % 128>>

\* the inverse of FormSize, as the parser of a tag header applies it
ParseSize(b) == b[1] * 2097152 + b[2] * 16384 + b[3] * 128 + b[4]

\* formTagHeader: "ID3", version 4.0, no flags, then the size of the frames
formTagHeader(framesSize) == <<73, 68, 51, 4, 0, 0>> \o framesSize

\* sequencer.AddFrame: the frame goes to the end of the sequence
SequenceAddFrame(s, f) == Append(s, f)

\* sequencer.Frames(): the frames of the sequence in insertion order
SequenceFrames(s) == s

\* newPictureSequence, newCommentSequence, newUSLFSequence: an empty sequence
newSequence == <<>>

\* the frame a body read from the file decodes to
ParseFrameBody(id, body) ==
    IF id \in {"TIT2", "TPE1", "TALB", "TDRC", "TCON"}
    THEN [kind |-> "TextFrame", Encoding |-> body[1],
          Text |-> CHOOSE s \in Texts : TextBytes(s) = Tail(body)]
    ELSE PictureFrame(CHOOSE s \in Texts : TextBytes(s) = Tail(Tail(body)))

\* readFrame: the frame at coordinate fc of the file behind handle h
ReadFrame(id, h, fc, inos) ==
    ParseFrameBody(id, SubSeq(inos[h.ino].content, fc.Pos + 1, fc.Pos + fc.Len))

----------------------------------------------------------------------------
(* The frame store.  A tag value t is [framesCoords, frames, sequences]. *)

Routed == {IdsAt("Attached picture"), IdsAt("Comments"),
           IdsAt("Unsynchronised lyrics/text transcription")}

\* findSpecificAddFunction: the description whose add function the id is routed to, "" for nil
findSpecificAddFunction(id) ==
    CASE id = IdsAt("Attached picture") -> "Attached picture"
      [] id = IdsAt("Comments") -> "Comments"
      [] id = IdsAt("Unsynchronised lyrics/text transcription") ->
            "Unsynchronised lyrics/text transcription"
      [] OTHER -> ""

checkExistenceOfSequence(t, id) ==
    IF id \notin DOMAIN t.sequences
    THEN [t EXCEPT !.sequences = MapSet(t.sequences, id, newSequence)]
    ELSE t

addFrameToSequenceReplaces(t, id, f) ==
    [t EXCEPT !.sequences = MapSet(t.sequences, id, SequenceAddFrame(newSequence, f))]

addFrameToSequence(t, id, f) ==
    [t EXCEPT !.sequences = MapSet(t.sequences, id, SequenceAddFrame(t.sequences[id], f))]

\* addAttachedPicture, addCommentFrame, addUnsynchronisedLyricsFrame
addToSequenceOf(t, description, f) ==
    addFrameToSequence(checkExistenceOfSequence(t, IdsAt(description)), IdsAt(description), f)

AddFrameAlwaysFlat(t, id, f) == [t EXCEPT !.frames = MapSet(t.frames, id, f)]

AddFrameT(t, id, f) ==
    IF findSpecificAddFunction(id) # ""
    THEN addToSequenceOf(t, findSpecificAddFunction(id), f)
    ELSE [t EXCEPT !.frames = MapSet(t.frames, id, f)]

RECURSIVE addParsed(_, _, _, _, _)
\* the loop of parseFramesCoordsWithID: each frame read is added with AddFrame
addParsed(t, id, fcs, h, inos) ==
    IF fcs = <<>> THEN t
    ELSE addParsed(AddFrameT(t, id, ReadFrame(id, h, Head(fcs), inos)), id, Tail(fcs), h, inos)

\* parseFramesCoordsWithID: materialize the coordinates of id, then forget them
parseFramesCoordsWithID(t, id, h, inos) ==
    IF id \notin DOMAIN t.framesCoords THEN t
    ELSE LET u == IF h.closed THEN t ELSE addParsed(t, id, t.framesCoords[id], h, inos)
         IN  [u EXCEPT !.framesCoords = MapDelete(t.framesCoords, id)]

RECURSIVE parseInOrder(_, _, _, _)
parseInOrder(t, order, h, inos) ==
    IF order = <<>> THEN t
    ELSE parseInOrder(parseFramesCoordsWithID(t, Head(order), h, inos), Tail(order), h, inos)

\* parseAllFramesCoords: every pending id; the ids do not interact, so one order stands for all
parseAllFramesCoords(t, h, inos) ==
    parseInOrder(t, CHOOSE o \in Orders(DOMAIN t.framesCoords) : TRUE, h, inos)

\* the map AllFrames builds from a tag whose coordinates are parsed
AllFramesMap(t) ==
    [id \in (DOMAIN t.frames) \cup (DOMAIN t.sequences) |->
        (IF id \in DOMAIN t.frames THEN <<t.frames[id]>> ELSE <<>>)
        \o (IF id \in DOMAIN t.sequences THEN SequenceFrames(t.sequences[id]) ELSE <<>>)]

AllFramesNoParse(t, h, inos) == [t |-> t, all |-> AllFramesMap(t)]

\* AllFrames: [t |-> the tag afterwards, all |-> the map returned]
AllFramesT(t, h, inos) ==
    LET u == parseAllFramesCoords(t, h, inos)
    IN  [t |-> u, all |-> AllFramesMap(u)]

\* what GetFrames reads once the coordinates of id are parsed
GetFramesRead(t, id) ==
    IF id \in DOMAIN t.frames THEN <<t.frames[id]>>
    ELSE IF id \in DOMAIN t.sequences THEN SequenceFrames(t.sequences[id])
    ELSE <<>>

GetFramesParsesAll(t, id, h, inos) ==
    LET u == IF id \in DOMAIN t.framesCoords THEN parseAllFramesCoords(t, h, inos) ELSE t
    IN  [t |-> u, fs |-> GetFramesRead(u, id)]

\* GetFrames: [t |-> the tag afterwards, fs |-> the slice returned]
GetFramesT(t, id, h, inos) ==
    LET u == IF id \in DOMAIN t.framesCoords THEN parseFramesCoordsWithID(t, id, h, inos) ELSE t
    IN  [t |-> u, fs |-> GetFramesRead(u, id)]

LastOfFirst(fs) == IF Len(fs) = 0 THEN Nil ELSE fs[1]

\* the choice GetLastFrame makes in the slice GetFrames returned
LastOf(fs) == IF Len(fs) = 0 THEN Nil ELSE fs[Len(fs)]

\* GetLastFrame: [t |-> the tag afterwards, f |-> the frame returned, Nil for nil]
GetLastFrameT(t, id, h, inos) ==
    LET g == GetFramesT(t, id, h, inos)
    IN  [t |-> g.t, f |-> LastOf(g.fs)]

\* GetTextFrame: [t, f, panics]; the type assertion panics on a frame of another type
GetTextFrameT(t, id, h, inos) ==
    LET g == GetLastFrameT(t, id, h, inos)
    IN  IF g.f = Nil THEN [t |-> g.t, f |-> ZeroTextFrame, panics |-> FALSE]
        ELSE [t |-> g.t, f |-> g.f, panics |-> g.f.kind # "TextFrame"]

----------------------------------------------------------------------------
(* Frame serialisation *)

writeFrameHeaderFlagsFirst(buf, id, frameSize) ==
    buf \o IdBytes(id) \o <<0, 0>> \o FormSize(frameSize)

\* writeFrameHeader: the identifier, the size of the body, two zero flag bytes
writeFrameHeader(buf, id, frameSize) == buf \o IdBytes(id) \o FormSize(frameSize) \o <<0, 0>>

formFrameNoCheck(id, frame) ==
    LET frameBody == Body(frame)
    IN  [panics |-> FALSE, bodies |-> <<frameBody>>,
         bytes |-> writeFrameHeader(<<>>, id, Len(frameBody)) \o frameBody]

\* formFrame: [panics, bodies, bytes]: a panic on the blank id, else the frame block of the
\* frame; bodies are the values the calls of frame.Body() returned, in order
formFrame(id, frame) ==
    IF id = "" THEN [panics |-> TRUE, bodies |-> <<>>, bytes |-> <<>>]
    ELSE LET frameBody == Body(frame)
         IN  [panics |-> FALSE, bodies |-> <<frameBody>>,
              bytes |-> writeFrameHeader(<<>>, id, Len(frameBody)) \o frameBody]

RECURSIVE writeFramesOfReversed(_, _, _)
writeFramesOfReversed(w, id, fs) ==
    IF fs = <<>> \/ w.panics THEN w
    ELSE LET r == writeFramesOfReversed(w, id, Tail(fs))
             b == formFrame(id, Head(fs))
         IN  [panics |-> r.panics \/ b.panics, bytes |-> r.bytes \o b.bytes]

RECURSIVE writeFramesOf(_, _, _)
\* the inner loop of writeFrames: the blocks of the frames fs of one id go to w, in order
writeFramesOf(w, id, fs) ==
    IF fs = <<>> \/ w.panics THEN w
    ELSE LET b == formFrame(id, Head(fs))
         IN  writeFramesOf([panics |-> b.panics, bytes |-> w.bytes \o b.bytes], id, Tail(fs))

RECURSIVE writeFrames(_, _, _)
\* writeFrames: the range loop over the map all, visiting its ids in the given order
writeFrames(w, all, order) ==
    IF order = <<>> \/ w.panics THEN w
    ELSE writeFrames(writeFramesOf(w, Head(order), all[Head(order)]), all, Tail(order))

\* formAllFrames: [panics, bytes] of writeFrames on an empty buffer
formAllFrames(all, order) == writeFrames([panics |-> FALSE, bytes |-> <<>>], all, order)

framesSizeWithHeader(fr) == FormSize(Len(fr) + 10)

\* Save line 217: the size of the frames as the header holds it
framesSizeOf(fr) == FormSize(Len(fr))

----------------------------------------------------------------------------
(* The buffer pool: one pool for the whole package, shared by every Tag *)

\* a slice of the array of a pooled buffer; buf 0: a slice of an array of its own
NoSlice == [buf |-> 0, len |-> 0]

\* bytesbufferpool.Get, c the buffer the pool hands back: any buffer Put to it, reset to
\* length 0 with its array kept; a new buffer if c is none of those
PoolGet(p, c) ==
    IF c \in p.free THEN [p |-> [p EXCEPT !.free = @ \ {c}], b |-> c]
    ELSE IF Len(p.bufs) >= MaxBufs /\ p.free # {}
    THEN LET m == CHOOSE x \in p.free : \A y \in p.free : x <= y
         IN  [p |-> [p EXCEPT !.free = @ \ {m}], b |-> m]
    ELSE [p |-> [p EXCEPT !.bufs = Append(@, <<>>)], b |-> Len(p.bufs) + 1]

\* bytesbufferpool.Put
PoolPut(p, b) == [p EXCEPT !.free = @ \cup {b}]

\* bytes.Buffer.Write on buffer b holding n bytes: data goes into its array from n on
BufferWrite(p, b, n, data) ==
    [p EXCEPT !.bufs[b] = SubSeq(@, 1, n) \o data \o SubSeq(@, n + Len(data) + 1, Len(@))]

\* the bytes a slice of a buffer's array shows now
SliceBytes(p, s) == SubSeq(p.bufs[s.buf], 1, s.len)

\* formFrame with its buffer: [p |-> the pool afterwards, slice |-> frameBuffer.Bytes(),
\* panics]; the deferred Put has run when the slice is returned
formFramePooled(p, id, frame, c) ==
    IF id = "" THEN [p |-> p, slice |-> NoSlice, panics |-> TRUE]
    ELSE LET g == PoolGet(p, c)
             frameBody == Body(frame)
             block == writeFrameHeader(<<>>, id, Len(frameBody)) \o frameBody
         IN  [p |-> PoolPut(BufferWrite(g.p, g.b, 0, block), g.b),
              slice |-> [buf |-> g.b, len |-> Len(block)],
              panics |-> FALSE]

RECURSIVE writeFramesOfPooled(_, _, _)
\* the inner loop of writeFrames: w.Write(formFrame(id, f)) on the buffer st.w holding st.n
\* bytes; st.cs are the buffers Get hands back to the calls of formFrame to come
writeFramesOfPooled(st, id, fs) ==
    IF fs = <<>> \/ st.panics THEN st
    ELSE LET r == formFramePooled(st.p, id, Head(fs), Head(st.cs))
             data == IF r.panics THEN <<>> ELSE SliceBytes(r.p, r.slice)
         IN  writeFramesOfPooled(
                 [p |-> IF r.panics THEN r.p ELSE BufferWrite(r.p, st.w, st.n, data),
                  w |-> st.w, n |-> st.n + Len(data), cs |-> Tail(st.cs),
                  panics |-> r.panics],
                 id, Tail(fs))

RECURSIVE writeFramesPooled(_, _, _)
writeFramesPooled(st, all, order) ==
    IF order = <<>> \/ st.panics THEN st
    ELSE writeFramesPooled(writeFramesOfPooled(st, Head(order), all[Head(order)]),
                           all, Tail(order))

\* formAllFrames with its buffer: [p, slice |-> framesBuffer.Bytes(), panics]; cs are the
\* buffers Get hands back, first to formAllFrames, then to each formFrame
formAllFramesPooled(p, all, order, cs) ==
    LET g == PoolGet(p, Head(cs))
        st == writeFramesPooled([p |-> g.p, w |-> g.b, n |-> 0, cs |-> Tail(cs),
                                 panics |-> FALSE], all, order)
    IN  [p |-> PoolPut(st.p, g.b), slice |-> [buf |-> g.b, len |-> st.n],
         panics |-> st.panics]

RECURSIVE NumFrames(_, _)
\* the number of frames in the slices of the ids S of the map all
NumFrames(all, S) ==
    IF S = {} THEN 0
    ELSE LET id == CHOOSE x \in S : TRUE IN Len(all[id]) + NumFrames(all, S \ {id})

----------------------------------------------------------------------------
(* The file system *)

OrigPath == [dir |-> "music", n |-> 0]

\* the name of the k-th file ioutil.TempFile creates: never a name in use
TempName(k) == [dir |-> "tmp", n |-> k]

\* what a path shows: the content and mode of the file under it, if there is one
PathView(ps, inos, p) == IF p \in DOMAIN ps THEN <<inos[ps[p]]>> ELSE <<>>

\* the audio part of the file the Tag is built from
Payload == <<255, 251>>

\* a frame block as the file format lays it out: id, size, flags, body
DiskBlock(id, f) == IdBytes(id) \o FormSize(Len(Body(f))) \o <<0, 0>> \o Body(f)

RECURSIVE DiskFrames(_)
\* the frame blocks of the tag a file holds
DiskFrames(disk) ==
    IF disk = <<>> THEN <<>> ELSE DiskBlock(Head(disk).id, Head(disk).f) \o DiskFrames(Tail(disk))

DiskContent(disk) ==
    formTagHeader(FormSize(Len(DiskFrames(disk)))) \o DiskFrames(disk) \o Payload

RECURSIVE DiskCoords(_, _, _)
\* findAllFrames: the coordinates of the body of every frame of the tag, per id
DiskCoords(disk, pos, m) ==
    IF disk = <<>> THEN m
    ELSE LET id == Head(disk).id
             len == Len(Body(Head(disk).f))
             fc == [Pos |-> pos + 10, Len |-> len]
         IN  DiskCoords(Tail(disk), pos + 10 + len,
                        MapSet(m, id, IF id \in DOMAIN m THEN Append(m[id], fc) ELSE <<fc>>))

\* the tags of the files a Tag is built from
InitTags ==
    { <<>>,
      <<[id |-> "TIT2", f |-> TextFrame("b")], [id |-> "APIC", f |-> PictureFrame("C")]>> }

NoRet == [op |-> "", id |-> "", fs |-> <<>>, f |-> Nil, text |-> "", all |-> EmptyMap,
          err |-> "", step |-> ""]

NoSave == [frames |-> <<>>, framesSize |-> <<>>, newFile |-> 0, originalFile |-> 0,
           mode |-> 0, slice |-> NoSlice]

\* the pool before any buffer was made
NoPool == [bufs |-> <<>>, free |-> {}]

NoPre == [orig |-> <<>>, named |-> <<>>, name |-> OrigPath, exists |-> FALSE, handle |-> 0,
          size |-> 0, content |-> <<>>, files |-> 0, all |-> EmptyMap, frames |-> <<>>]

Init ==
    \E disk \in InitTags :
        /\ framesCoords = DiskCoords(disk, 10, EmptyMap)
        /\ frames = EmptyMap
        /\ sequences = EmptyMap
        /\ file = 1
        /\ handles = <<[ino |-> 1, name |-> OrigPath, closed |-> FALSE, off |-> 0]>>
        /\ originalSize = 10 + Len(DiskFrames(disk))
        /\ paths = [p \in {OrigPath} |-> 1]
        \* mode 0644
        /\ inodes = <<[content |-> DiskContent(disk), mode |-> 420]>>
        /\ pc = "idle"
        /\ sv = NoSave
        /\ ret = NoRet
        /\ initial = {disk[i].id : i \in DOMAIN disk}
        /\ added = EmptyMap
        /\ pre = NoPre
        /\ pool = NoPool
        /\ nops = 0
        /\ nsaves = 0

----------------------------------------------------------------------------
(* The calls on the frame store *)

T == [framesCoords |-> framesCoords, frames |-> frames, sequences |-> sequences]

SetTag(u) ==
    /\ framesCoords' = u.framesCoords
    /\ frames' = u.frames
    /\ sequences' = u.sequences

History(h, id, f) == MapSet(h, id, (IF id \in DOMAIN h THEN h[id] ELSE <<>>) \o <<f>>)

\* the body of AddFrame as a step of the program
DoAddFrame(id, f) ==
    /\ pc = "idle"
    /\ nops < MaxOps
    /\ SetTag(AddFrameT(T, id, f))
    /\ added' = History(added, id, f)
    /\ ret' = [NoRet EXCEPT !.op = "AddFrame"]
    /\ nops' = nops + 1
    /\ UNCHANGED <<fsVars, pc, sv, initial, pre, nsaves, pool>>

\* AddFrame(id, f) for a pair <<id, f>> of inputs
AddFrame(inputs) == \E p \in inputs : DoAddFrame(p[1], p[2])

SetTitle(texts) ==
    \E title \in texts :
        DoAddFrame(IdsAt("Title/Songname/Content description"), TextFrame(title))

SetArtist(texts) ==
    \E artist \in texts :
        DoAddFrame(IdsAt("Lead artist/Lead performer/Soloist/Performing group"),
                   TextFrame(artist))

SetAlbum(texts) ==
    \E album \in texts :
        DoAddFrame(IdsAt("Album/Movie/Show title"), TextFrame(album))

SetYear(texts) ==
    \E year \in texts : DoAddFrame(IdsAt("Recording time"), TextFrame(year))

SetGenre(texts) ==
    \E genre \in texts : DoAddFrame(IdsAt("Content type"), TextFrame(genre))

GetFrames(qids) ==
    \E id \in qids :
        LET g == GetFramesT(T, id, handles[file], inodes)
        IN  /\ pc = "idle"
            /\ SetTag(g.t)
            /\ ret' = [NoRet EXCEPT !.op = "GetFrames", !.id = id, !.fs = g.fs]
            /\ UNCHANGED <<fsVars, pc, sv, histVars, nops, nsaves, pool>>

GetLastFrame(qids) ==
    \E id \in qids :
        LET g == GetLastFrameT(T, id, handles[file], inodes)
        IN  /\ pc = "idle"
            /\ SetTag(g.t)
            /\ ret' = [NoRet EXCEPT !.op = "GetLastFrame", !.id = id, !.f = g.f]
            /\ UNCHANGED <<fsVars, pc, sv, histVars, nops, nsaves, pool>>

AllFrames ==
    LET a == AllFramesT(T, handles[file], inodes)
    IN  /\ pc = "idle"
        /\ SetTag(a.t)
        /\ ret' = [NoRet EXCEPT !.op = "AllFrames", !.all = a.all]
        /\ UNCHANGED <<fsVars, pc, sv, histVars, nops, nsaves, pool>>

\* Title, Artist, Album, Year, Genre: the text of GetTextFrame(t.ids[description])
DoGetText(op, description) ==
    LET g == GetTextFrameT(T, IdsAt(description), handles[file], inodes)
    IN  /\ pc = "idle"
        /\ SetTag(g.t)
        /\ IF g.panics
           THEN /\ pc' = "panic"
                /\ ret' = [NoRet EXCEPT !.op = op, !.id = IdsAt(description), !.err = "panic"]
           ELSE /\ pc' = pc
                /\ ret' = [NoRet EXCEPT !.op = op, !.id = IdsAt(description), !.text = g.f.Text]
        /\ UNCHANGED <<fsVars, sv, histVars, nops, nsaves, pool>>

Title == DoGetText("Title", "Title/Songname/Content description")

Artist == DoGetText("Artist", "Lead artist/Lead performer/Soloist/Performing group")

Album == DoGetText("Album", "Album/Movie/Show title")

Year == DoGetText("Year", "Recording time")

Genre == DoGetText("Genre", "Content type")

----------------------------------------------------------------------------
(* Save, statement by statement *)

WriteTo(h, data) ==
    /\ inodes' = [inodes EXCEPT ![handles[h].ino].content = @ \o data]
    /\ handles' = [handles EXCEPT ![h].off = @ + Len(data)]

\* the deferred originalFile.Close()
CloseOriginal(hs) == [hs EXCEPT ![sv.originalFile].closed = TRUE]

\* return err from the given step: Save is left, its locals are gone
ReturnErr(step) ==
    /\ pc' = "idle"
    /\ sv' = NoSave
    /\ ret' = [NoRet EXCEPT !.op = "Save", !.err = "error", !.step = step]

\* what the history keeps of the call of Save: the paths, the file and the frames
PreOf(all, fr) ==
    [orig |-> PathView(paths, inodes, OrigPath),
     named |-> PathView(paths, inodes, handles[file].name),
     name |-> handles[file].name,
     exists |-> handles[file].name \in DOMAIN paths,
     handle |-> file,
     size |-> originalSize,
     content |-> inodes[handles[file].ino].content,
     files |-> Len(inodes),
     all |-> all,
     frames |-> fr]

\* Save line 214-223: form the frames and their size, create the temporary file; here the
\* pool keeps none of the buffers Put to it, every Get makes a new one
SaveBegin ==
    LET a == AllFramesT(T, handles[file], inodes)
    IN  /\ pc = "idle"
        /\ nsaves < MaxSaves
        /\ nsaves' = nsaves + 1
        /\ SetTag(a.t)
        /\ \E order \in Orders(DOMAIN a.all) :
              LET fr == formAllFrames(a.all, order)
              IN  /\ pre' = PreOf(a.all, fr.bytes)
                  /\ IF fr.panics
                     THEN /\ pc' = "panic"
                          /\ ret' = [NoRet EXCEPT !.op = "Save", !.err = "panic"]
                          /\ UNCHANGED <<fsVars, sv>>
                     ELSE \/ /\ ReturnErr("tempfile")
                             /\ UNCHANGED fsVars
                          \* ioutil.TempFile: a new file of mode 0600 under a fresh name
                          \/ /\ inodes' = Append(inodes, [content |-> <<>>, mode |-> 384])
                             /\ paths' = MapSet(paths, TempName(Len(inodes)), Len(inodes) + 1)
                             /\ handles' = Append(handles, [ino |-> Len(inodes) + 1,
                                                            name |-> TempName(Len(inodes)),
                                                            closed |-> FALSE, off |-> 0])
                             /\ sv' = [NoSave EXCEPT !.frames = fr.bytes,
                                                     !.framesSize = framesSizeOf(fr.bytes),
                                                     !.newFile = Len(handles) + 1]
                             /\ pc' = "header"
                             /\ ret' = NoRet
                             /\ UNCHANGED <<file, originalSize>>
        /\ UNCHANGED <<initial, added, nops, pool>>

\* Save line 214-223 on a pool that keeps the buffers Put to it: the slice frames is a
\* slice of the array of framesBuffer, which is back in the pool
SaveBeginPooled ==
    LET a == AllFramesT(T, handles[file], inodes)
    IN  /\ pc = "idle"
        /\ nsaves < MaxSaves
        /\ nsaves' = nsaves + 1
        /\ SetTag(a.t)
        /\ \E order \in Orders(DOMAIN a.all) :
           \E cs \in [1..(1 + NumFrames(a.all, DOMAIN a.all)) -> 0..MaxBufs] :
              LET fr == formAllFramesPooled(pool, a.all, order, cs)
                  bytes == SliceBytes(fr.p, fr.slice)
              IN  /\ pre' = PreOf(a.all, formAllFrames(a.all, order).bytes)
                  /\ pool' = fr.p
                  /\ IF fr.panics
                     THEN /\ pc' = "panic"
                          /\ ret' = [NoRet EXCEPT !.op = "Save", !.err = "panic"]
                          /\ UNCHANGED <<fsVars, sv>>
                     ELSE \/ /\ ReturnErr("tempfile")
                             /\ UNCHANGED fsVars
                          \/ /\ inodes' = Append(inodes, [content |-> <<>>, mode |-> 384])
                             /\ paths' = MapSet(paths, TempName(Len(inodes)), Len(inodes) + 1)
                             /\ handles' = Append(handles, [ino |-> Len(inodes) + 1,
                                                            name |-> TempName(Len(inodes)),
                                                            closed |-> FALSE, off |-> 0])
                             /\ sv' = [NoSave EXCEPT !.frames = bytes,
                                                     !.slice = fr.slice,
                                                     !.framesSize = framesSizeOf(bytes),
                                                     !.newFile = Len(handles) + 1]
                             /\ pc' = "header"
                             /\ ret' = NoRet
                             /\ UNCHANGED <<file, originalSize>>
        /\ UNCHANGED <<initial, added, nops>>

\* the frames the Tags of other goroutines serialise
OtherFrames == {<<"TIT2", TextFrame("a")>>}

\* formFrame (line 296-303) run by another goroutine for a frame of its own Tag: its Get is
\* handed a buffer of the pool, it writes its block into it and Puts it back
OtherFormFrame ==
    /\ \E c \in pool.free : \E i \in OtherFrames :
           /\ pool' = formFramePooled(pool, i[1], i[2], c).p
           /\ pool' # pool
    /\ UNCHANGED <<tagVars, fsVars, pc, sv, ret, histVars, nops, nsaves>>

SaveWriteHeaderToOriginal ==
    /\ pc = "header"
    /\ \/ /\ WriteTo(file, formTagHeader(sv.framesSize))
          /\ pc' = "frames"
          /\ UNCHANGED <<ret, sv>>
       \/ /\ ReturnErr("header")
          /\ UNCHANGED <<inodes, handles>>
    /\ UNCHANGED <<tagVars, file, originalSize, paths, histVars, nops, nsaves, pool>>

\* Save line 226-228: write the tag header to the new file
SaveWriteHeader ==
    /\ pc = "header"
    /\ \/ /\ WriteTo(sv.newFile, formTagHeader(sv.framesSize))
          /\ pc' = "frames"
          /\ UNCHANGED <<ret, sv>>
       \/ /\ ReturnErr("header")
          /\ UNCHANGED <<inodes, handles>>
    /\ UNCHANGED <<tagVars, file, originalSize, paths, histVars, nops, nsaves, pool>>

\* what the slice frames of Save shows: the bytes of its own array, or what the array of
\* the pooled buffer it was taken from holds now
FramesNow == IF sv.slice.buf = 0 THEN sv.frames ELSE SliceBytes(pool, sv.slice)

\* Save line 231-233: write the frames to the new file
SaveWriteFrames ==
    /\ pc = "frames"
    /\ \/ /\ WriteTo(sv.newFile, FramesNow)
          /\ pc' = "seek"
          /\ UNCHANGED <<ret, sv>>
       \/ /\ ReturnErr("frames")
          /\ UNCHANGED <<inodes, handles>>
    /\ UNCHANGED <<tagVars, file, originalSize, paths, histVars, nops, nsaves, pool>>

\* Save line 236-240: originalFile := t.file, defer its Close, seek it to originalSize
SaveSeek ==
    /\ pc = "seek"
    /\ \/ /\ ~handles[file].closed
          /\ handles' = [handles EXCEPT ![file].off = originalSize]
          /\ sv' = [sv EXCEPT !.originalFile = file]
          /\ pc' = "copy"
          /\ UNCHANGED ret
       \/ /\ ReturnErr("seek")
          /\ handles' = [handles EXCEPT ![file].closed = TRUE]
    /\ UNCHANGED <<tagVars, file, originalSize, paths, inodes, histVars, nops, nsaves, pool>>

RestFromStart(h) == inodes[handles[h].ino].content

\* the bytes of the file behind handle h from its offset to its end
Rest(h) ==
    LET c == inodes[handles[h].ino].content
    IN  SubSeq(c, handles[h].off + 1, Len(c))

\* Save line 243-245: copy the rest of the original file to the new file
SaveCopy ==
    /\ pc = "copy"
    /\ \/ /\ inodes' = [inodes EXCEPT ![handles[sv.newFile].ino].content =
                                          @ \o Rest(sv.originalFile)]
          /\ handles' = [handles EXCEPT ![sv.newFile].off = @ + Len(Rest(sv.originalFile)),
                                        ![sv.originalFile].off = @ + Len(Rest(sv.originalFile))]
          /\ pc' = "stat"
          /\ UNCHANGED <<ret, sv>>
       \* the copy breaks off after some of the bytes
       \/ /\ \E k \in 0..Len(Rest(sv.originalFile)) :
                /\ inodes' = [inodes EXCEPT ![handles[sv.newFile].ino].content =
                                                @ \o SubSeq(Rest(sv.originalFile), 1, k)]
                /\ handles' = [CloseOriginal(handles) EXCEPT ![sv.newFile].off = @ + k,
                                                             ![sv.originalFile].off = @ + k]
          /\ ReturnErr("copy")
    /\ UNCHANGED <<tagVars, file, originalSize, paths, histVars, nops, nsaves, pool>>

\* Save line 248-252: the mode of the original file
SaveStat ==
    /\ pc = "stat"
    /\ \/ /\ sv' = [sv EXCEPT !.mode = inodes[handles[sv.originalFile].ino].mode]
          /\ pc' = "chmod"
          /\ UNCHANGED <<ret, handles>>
       \/ /\ ReturnErr("stat")
          /\ handles' = CloseOriginal(handles)
    /\ UNCHANGED <<tagVars, file, originalSize, paths, inodes, histVars, nops, nsaves, pool>>

\* Save line 255-257: give the new file the mode of the original file
SaveChmod ==
    /\ pc = "chmod"
    /\ \/ /\ inodes' = [inodes EXCEPT ![handles[sv.newFile].ino].mode = sv.mode]
          /\ pc' = "rename"
          /\ UNCHANGED <<ret, handles, sv>>
       \/ /\ ReturnErr("chmod")
          /\ handles' = CloseOriginal(handles)
          /\ UNCHANGED inodes
    /\ UNCHANGED <<tagVars, file, originalSize, paths, histVars, nops, nsaves, pool>>

\* os.Rename: newname now names the file oldname named, oldname names nothing
Rename(ps, oldname, newname) == MapSet(MapDelete(ps, oldname), newname, ps[oldname])

SaveRenameSwapsFirst ==
    /\ pc = "rename"
    /\ file' = sv.newFile
    /\ \/ /\ handles[sv.newFile].name \in DOMAIN paths
          /\ paths' = Rename(paths, handles[sv.newFile].name, handles[sv.originalFile].name)
          /\ pc' = "idle"
          /\ sv' = NoSave
          /\ ret' = [NoRet EXCEPT !.op = "Save", !.err = "nil"]
       \/ /\ ReturnErr("rename")
          /\ UNCHANGED paths
    /\ handles' = CloseOriginal(handles)
    /\ UNCHANGED <<tagVars, originalSize, inodes, histVars, nops, nsaves, pool>>

\* Save line 260-265: rename the new file to the name of the original file, take its handle
SaveRename ==
    /\ pc = "rename"
    /\ \/ /\ handles[sv.newFile].name \in DOMAIN paths
          /\ paths' = Rename(paths, handles[sv.newFile].name, handles[sv.originalFile].name)
          /\ file' = sv.newFile
          /\ pc' = "idle"
          /\ sv' = NoSave
          /\ ret' = [NoRet EXCEPT !.op = "Save", !.err = "nil"]
       \/ /\ ReturnErr("rename")
          /\ UNCHANGED <<paths, file>>
    /\ handles' = CloseOriginal(handles)
    /\ UNCHANGED <<tagVars, originalSize, inodes, histVars, nops, nsaves, pool>>

\* Close: close the file of the tag
Close ==
    /\ pc = "idle"
    /\ handles' = [handles EXCEPT ![file].closed = TRUE]
    /\ ret' = [NoRet EXCEPT !.op = "Close",
                            !.err = IF handles[file].closed THEN "error" ELSE "nil"]
    /\ UNCHANGED <<tagVars, file, originalSize, paths, inodes, pc, sv, histVars, nops, nsaves, pool>>

\* another program removes the file from its path while no call is running
Unlink ==
    /\ pc = "idle"
    /\ OrigPath \in DOMAIN paths
    /\ paths' = MapDelete(paths, OrigPath)
    /\ ret' = NoRet
    /\ UNCHANGED <<tagVars, file, handles, originalSize, inodes, pc, sv, histVars, nops, nsaves, pool>>

----------------------------------------------------------------------------
(* The specifications *)

\* the frames and ids callers pass to AddFrame: routed ids, a text id, an id the table
\* lacks, and ID() of a description the table lacks
FrameInputs ==
    {<<"APIC", PictureFrame("A")>>, <<"APIC", PictureFrame("B")>>, <<"APIC", PictureFrame("C")>>,
     <<"COMM", PictureFrame("A")>>, <<"USLT", PictureFrame("A")>>,
     <<"TIT2", PictureFrame("A")>>, <<"XXXX", PictureFrame("A")>>,
     <<"XXXX", PictureFrame("B")>>, <<ID("Mood"), PictureFrame("A")>>}

FrameQueryIDs == {"APIC", "COMM", "USLT", "TIT2", "XXXX", ""}

\* the frame store under AddFrame and the accessors
NextFrames ==
    \/ AddFrame(FrameInputs)
    \/ SetTitle({"a"})
    \/ GetFrames(FrameQueryIDs)
    \/ GetLastFrame(FrameQueryIDs)
    \/ AllFrames
    \/ Title

SpecFrames == Init /\ [][NextFrames]_vars

SetTexts == {"a", "cc"}

\* the typed accessors
NextText ==
    \/ SetTitle(SetTexts)
    \/ SetArtist(SetTexts)
    \/ SetAlbum(SetTexts)
    \/ SetYear(SetTexts)
    \/ SetGenre(SetTexts)
    \/ Title
    \/ Artist
    \/ Album
    \/ Year
    \/ Genre

SpecText == Init /\ [][NextText]_vars

SaveTexts == {"", "cc"}

SaveInputs == {<<"APIC", PictureFrame("A")>>, <<ID("Mood"), PictureFrame("A")>>}

\* Save statement by statement
SaveSteps ==
    \/ SaveBegin
    \/ SaveWriteHeader
    \/ SaveWriteFrames
    \/ SaveSeek
    \/ SaveCopy
    \/ SaveStat
    \/ SaveChmod
    \/ SaveRename

\* Save on a tag callers change between the calls
Next ==
    \/ nops < MaxEdits /\ SetTitle(SaveTexts)
    \/ nops < MaxEdits /\ AddFrame(SaveInputs)
    \/ SaveSteps

Spec == Init /\ [][Next]_vars

\* Save on the shared pool, while other goroutines save Tags of their own
NextPool ==
    \/ nops < MaxEdits /\ SetTitle({"cc"})
    \/ SaveBeginPooled
    \/ SaveWriteHeader
    \/ SaveWriteFrames
    \/ SaveSeek
    \/ SaveCopy
    \/ SaveStat
    \/ SaveChmod
    \/ SaveRename
    \/ OtherFormFrame

SpecPool == Init /\ [][NextPool]_vars

\* Save and Close on a file another program may remove from its path
NextEnv ==
    \/ SaveSteps
    \/ Close
    \/ Unlink

SpecEnv == Init /\ [][NextEnv]_vars

----------------------------------------------------------------------------
(* The claims *)

\* C1: a Save that returns an error, whatever the step that failed, leaves the bytes and
\* the mode under the path of the original file exactly as they were when Save was called
C1_SaveErrorLeavesFile ==
    (ret.op = "Save" /\ ret.err = "error") =>
        /\ PathView(paths, inodes, OrigPath) = pre.orig
        /\ PathView(paths, inodes, pre.name) = pre.named

\* a Save on an edited tag that failed at its last step, the rename
C1_Witness ==
    /\ ret.op = "Save" /\ ret.err = "error" /\ ret.step = "rename"
    /\ nops > 0
    /\ pre.orig # <<>>
    /\ \E p \in DOMAIN paths : p # OrigPath /\ inodes[paths[p]].content # pre.orig[1].content

\* the file Save starts from is a tag region of originalSize bytes, then the payload
LayoutHolds ==
    /\ Len(pre.content) >= pre.size
    /\ ParseSize(SubSeq(pre.content, 7, 10)) + 10 = pre.size

\* the M bytes after the tag region of the file Save starts from
PayloadOf(p) == SubSeq(p.content, p.size + 1, Len(p.content))

\* C2: after a successful Save of a file made of a tag region of originalSize bytes and M
\* bytes of payload, the original path shows a file that is the header of the new frame
\* buffer, as many bytes as the frame buffer has, and the M bytes of payload at its end
C2_PayloadPreserved ==
    (ret.op = "Save" /\ ret.err = "nil" /\ LayoutHolds) =>
        /\ OrigPath \in DOMAIN paths
        /\ LET c == inodes[paths[OrigPath]].content
               m == Len(PayloadOf(pre))
           IN  /\ Len(c) = 10 + Len(pre.frames) + m
               /\ SubSeq(c, 1, 10) = formTagHeader(FormSize(Len(pre.frames)))
               /\ SubSeq(c, Len(c) - m + 1, Len(c)) = PayloadOf(pre)

\* C3: GetFrames on a routed id that had no frames when the Tag was built returns exactly
\* the frames added to it with AddFrame, each once, in the order they were added
C3_RoutedKeepsOrder ==
    (ret.op = "GetFrames" /\ ret.id \in Routed /\ ret.id \notin initial) =>
        ret.fs = (IF ret.id \in DOMAIN added THEN added[ret.id] ELSE <<>>)

\* three pictures added and returned
C3_Witness ==
    /\ ret.op = "GetFrames" /\ ret.id = "APIC" /\ "APIC" \notin initial
    /\ Len(ret.fs) = 3
    /\ ret.fs[1] # ret.fs[2]

\* C4: GetFrames on a non-routed id that AddFrame was called on returns the one-element
\* list of the frame added last
C4_FlatOverwrites ==
    (ret.op = "GetFrames" /\ ret.id \notin Routed /\ ret.id \in DOMAIN added) =>
        ret.fs = <<added[ret.id][Len(added[ret.id])]>>

\* C5: a Save called when the file is gone from its path returns an error
C5_DeletedFileIsAnError ==
    (ret.op = "Save" /\ pre.name = OrigPath /\ ~pre.exists) => ret.err = "error"

\* the sum of the lengths of the frame blocks of the frames of a map of AllFrames
RECURSIVE BlockSumOf(_, _)
BlockSumOf(id, fs) ==
    IF fs = <<>> THEN 0 ELSE Len(formFrame(id, Head(fs)).bytes) + BlockSumOf(id, Tail(fs))

RECURSIVE BlockSum(_, _)
BlockSum(all, S) ==
    IF S = {} THEN 0
    ELSE LET id == CHOOSE x \in S : TRUE
         IN  BlockSumOf(id, all[id]) + BlockSum(all, S \ {id})

\* C6: once Save has written header and frames to the new file, and in the file a
\* successful Save leaves, the size the header holds is the length of the frame buffer
\* written after it, which is the sum of the lengths of the blocks of the frames of AllFrames
C6_HeaderSizeIsFramesSize ==
    /\ pc \in {"seek", "copy", "stat", "chmod", "rename"} =>
          LET c == inodes[handles[sv.newFile].ino].content
          IN  /\ Len(c) >= 10 + Len(sv.frames)
              /\ ParseSize(SubSeq(c, 7, 10)) = Len(sv.frames)
              /\ SubSeq(c, 11, 10 + Len(sv.frames)) = sv.frames
              /\ Len(sv.frames) = BlockSum(pre.all, DOMAIN pre.all)
    /\ (ret.op = "Save" /\ ret.err = "nil") =>
          LET c == inodes[handles[file].ino].content
          IN  /\ Len(c) >= 10 + Len(pre.frames)
              /\ ParseSize(SubSeq(c, 7, 10)) = Len(pre.frames)
              /\ SubSeq(c, 11, 10 + Len(pre.frames)) = pre.frames
              /\ Len(pre.frames) = BlockSum(pre.all, DOMAIN pre.all)

\* a successful Save of the frames of two ids
C6_Witness ==
    /\ ret.op = "Save" /\ ret.err = "nil"
    /\ Cardinality(DOMAIN pre.all) >= 2
    /\ nops > 0

\* C7: formFrame panics on the blank id and produces no bytes, and a Save whose frames
\* hold one under the blank id ends in that panic: no file is created or written
C7_BlankIdPanics ==
    /\ \A id \in DOMAIN frames :
          LET b == formFrame(id, frames[id])
          IN  /\ b.panics <=> id = ""
              /\ b.panics => b.bytes = <<>>
              /\ ~b.panics => Len(IdBytes(id)) > 0 /\ SubSeq(b.bytes, 1, Len(IdBytes(id))) = IdBytes(id)
    /\ (ret.op = "Save" /\ "" \in DOMAIN pre.all) =>
          /\ pc = "panic"
          /\ ret.err = "panic"
          /\ PathView(paths, inodes, OrigPath) = pre.orig
          /\ Len(inodes) = pre.files

\* a Save that met a frame under the blank id
C7_Witness == ret.op = "Save" /\ "" \in DOMAIN pre.all /\ pc = "panic"

\* C8: GetLastFrame(id) returns the last element of what GetFrames(id) returns, nil if that
\* is empty; after pictures A, B, C were added to a tag without pictures it returns C
C8_GetLastFrame ==
    (ret.op = "GetLastFrame") =>
        LET fs == GetFramesT(T, ret.id, handles[file], inodes).fs
        IN  /\ fs = <<>> => ret.f = Nil
            /\ fs # <<>> => ret.f = fs[Len(fs)]
            /\ ("APIC" \notin initial /\ ret.id = "APIC" /\ "APIC" \in DOMAIN added
                /\ added["APIC"] = <<PictureFrame("A"), PictureFrame("B"), PictureFrame("C")>>)
               => ret.f = PictureFrame("C")

\* GetLastFrame after pictures A, B, C were added
C8_Witness ==
    /\ ret.op = "GetLastFrame" /\ ret.id = "APIC" /\ "APIC" \in DOMAIN added
    /\ added["APIC"] = <<PictureFrame("A"), PictureFrame("B"), PictureFrame("C")>>
    /\ ret.f = PictureFrame("C")

Getters == {"Title", "Artist", "Album", "Year", "Genre"}

\* C9: a typed getter returns the text of the last call of its setter, and the empty
\* string if the setter was never called and the file held no such frame
C9_GetterReturnsLastSet ==
    (ret.op \in Getters /\ ret.err = "") =>
        IF ret.id \in DOMAIN added
        THEN ret.text = added[ret.id][Len(added[ret.id])].Text
        ELSE ret.id \notin initial => ret.text = ""

\* C10: no id is set both in frames and in sequences: the routed ids are only ever in
\* sequences, all other ids only ever in frames
C10_FramesXorSequences ==
    /\ (DOMAIN frames) \cap (DOMAIN sequences) = {}
    /\ DOMAIN sequences \subseteq Routed
    /\ (DOMAIN frames) \cap Routed = {}

\* a routed id, an unknown id and a text id all stored
C10_Witness ==
    /\ "APIC" \in DOMAIN sequences /\ "APIC" \in DOMAIN added
    /\ "XXXX" \in DOMAIN frames
    /\ "TIT2" \in DOMAIN frames /\ "TIT2" \in DOMAIN added

\* the file Save has to leave under the path of the file the Tag was opened on: the tag
\* header, the frames, the payload of the file as it was at the call, and its mode
CompleteNewFile ==
    [content |-> formTagHeader(FormSize(Len(pre.frames))) \o pre.frames
                     \o SubSeq(pre.content, pre.size + 1, Len(pre.content)),
     mode |-> inodes[handles[pre.handle].ino].mode]

\* C11: while Save runs, the path of the original file shows the complete old file or the
\* complete new file and nothing in between: the only step of Save that changes what a
\* path of the call shows is the rename, it is the last step of Save, it changes no file,
\* and the file it moves there has the header, the frames, the payload and the mode
C11_OnlyRenameChangesThePath ==
    [][(\/ PathView(paths', inodes', OrigPath) # PathView(paths, inodes, OrigPath)
        \/ PathView(paths', inodes', handles[file].name)
               # PathView(paths, inodes, handles[file].name))
       => /\ pc = "rename" /\ pc' = "idle"
          /\ ret'.op = "Save" /\ ret'.err = "nil"
          /\ inodes' = inodes
          /\ PathView(paths', inodes', handles[file].name)
                 = <<inodes[handles[sv.newFile].ino]>>
          /\ handles[file].name = OrigPath
                 => PathView(paths', inodes', OrigPath) = <<CompleteNewFile>>]_vars

\* Save is about to rename: the new file is written, the path still shows the old file
C11_Witness ==
    /\ pc = "rename"
    /\ handles[file].name = OrigPath
    /\ PathView(paths, inodes, OrigPath) = pre.orig
    /\ inodes[handles[sv.newFile].ino] = CompleteNewFile
    /\ CompleteNewFile # pre.orig[1]

\* C12: the Tag's handle becomes the handle of the new file only when every step of Save,
\* the rename included, succeeded: while Save runs and when it returns an error the Tag
\* still has the handle it had at the call; after a successful Save it has the handle of
\* the file that is now under the name, that handle is open, and the old one is closed
C12_HandleSwapOnSuccessOnly ==
    /\ pc \notin {"idle", "panic"} => file = pre.handle
    /\ (ret.op = "Save" /\ ret.err = "error") => file = pre.handle
    /\ (ret.op = "Save" /\ ret.err = "nil") =>
           /\ file # pre.handle
           /\ file = Len(handles)
           /\ ~handles[file].closed
           /\ handles[pre.handle].closed
           /\ pre.name \in DOMAIN paths /\ paths[pre.name] = handles[file].ino

\* a Save whose rename failed after a Save that succeeded: the Tag keeps the handle the
\* first Save gave it
C12_Witness ==
    /\ ret.op = "Save" /\ ret.err = "error" /\ ret.step = "rename"
    /\ nsaves = 2
    /\ file = pre.handle /\ file # 1

\* C13: after any call of Save, whether it succeeded or returned an error at whatever
\* step, the handle the Tag owns is open, so that a following Save or Close never acts on
\* a closed handle and a failed Save can be retried
C13_HandleOpenAfterSave ==
    (ret.op = "Save" /\ ret.err \in {"nil", "error"}) => ~handles[file].closed

\* C14: no frame is ever stored under the empty id: whatever the callers pass to AddFrame
\* and the typed setters, ID() of an unknown description included, neither frames nor
\* sequences has an entry under "", so that Save never panics in formFrame
C14_NoFrameUnderBlankId ==
    /\ "" \notin DOMAIN frames
    /\ "" \notin DOMAIN sequences
    /\ ~(pc = "panic" /\ ret.op = "Save")

\* the frames with the given id in the tag of a file, in file order
RECURSIVE FramesOnDisk(_, _)
FramesOnDisk(disk, id) ==
    IF disk = <<>> THEN <<>>
    ELSE (IF Head(disk).id = id THEN <<Head(disk).f>> ELSE <<>>) \o FramesOnDisk(Tail(disk), id)

\* the tag the file had when the Tag was built
TheDisk == CHOOSE d \in InitTags : {d[i].id : i \in DOMAIN d} = initial

\* C15: GetFrames(id) with pending coordinates of id parses the frames of exactly that id
\* and leaves framesCoords without an entry for id and with the entries of all other ids
\* as they were; without pending coordinates it changes nothing, so a second GetFrames(id)
\* parses nothing and returns the same; the result is <<frames[id]>> if set, else the
\* frames of sequences[id] in order, else empty
C15_GetFramesParsesOneId ==
    [][ret'.op = "GetFrames" =>
        LET id == ret'.id
            pending == id \in DOMAIN framesCoords
            onDisk == FramesOnDisk(TheDisk, id)
            before == IF id \in DOMAIN sequences THEN SequenceFrames(sequences[id]) ELSE <<>>
        IN  /\ DOMAIN framesCoords' = (DOMAIN framesCoords) \ {id}
            /\ \A j \in DOMAIN framesCoords' : framesCoords'[j] = framesCoords[j]
            /\ (DOMAIN frames') \ {id} = (DOMAIN frames) \ {id}
            /\ \A j \in (DOMAIN frames) \ {id} : frames'[j] = frames[j]
            /\ (DOMAIN sequences') \ {id} = (DOMAIN sequences) \ {id}
            /\ \A j \in (DOMAIN sequences) \ {id} : sequences'[j] = sequences[j]
            /\ ~pending => frames' = frames /\ sequences' = sequences
            /\ pending =>
                  /\ Len(onDisk) = Len(framesCoords[id])
                  /\ IF id \in Routed
                     THEN /\ id \in DOMAIN sequences'
                          /\ SequenceFrames(sequences'[id]) = before \o onDisk
                          /\ id \notin DOMAIN frames'
                     ELSE /\ id \in DOMAIN frames'
                          /\ frames'[id] = onDisk[Len(onDisk)]
                          /\ id \notin DOMAIN sequences'
            /\ ret'.fs = IF id \in DOMAIN frames' THEN <<frames'[id]>>
                         ELSE IF id \in DOMAIN sequences'
                              THEN SequenceFrames(sequences'[id])
                              ELSE <<>>
            /\ GetFramesT(T', id, handles'[file'], inodes') = [t |-> T', fs |-> ret'.fs]
      ]_vars

\* GetFrames of the pictures parsed the picture of the file behind a picture added before,
\* and the title of the file is still pending
C15_Witness ==
    /\ ret.op = "GetFrames" /\ ret.id = "APIC"
    /\ "APIC" \in initial /\ "APIC" \notin DOMAIN framesCoords
    /\ "TIT2" \in DOMAIN framesCoords
    /\ Len(ret.fs) = 2 /\ ret.fs[2] = PictureFrame("C")

\* the number of frames the store holds
RECURSIVE StoredIn(_, _)
StoredIn(seqs, S) ==
    IF S = {} THEN 0
    ELSE LET id == CHOOSE x \in S : TRUE
         IN  Len(SequenceFrames(seqs[id])) + StoredIn(seqs, S \ {id})

\* the number of frames in a map from ids to slices of frames
RECURSIVE ReturnedIn(_, _)
ReturnedIn(all, S) ==
    IF S = {} THEN 0
    ELSE LET id == CHOOSE x \in S : TRUE
         IN  Len(all[id]) + ReturnedIn(all, S \ {id})

\* C16: AllFrames() leaves nothing pending in framesCoords and returns a map whose keys are
\* exactly the ids set in frames or in sequences; the slice of an id is its frame of
\* frames, if any, followed by the frames of its sequence in order, if any: every stored
\* frame is in the map, and the map has as many frames as the store
C16_AllFramesIsTheStore ==
    ret.op = "AllFrames" =>
        /\ DOMAIN framesCoords = {}
        /\ DOMAIN ret.all = (DOMAIN frames) \cup (DOMAIN sequences)
        /\ \A id \in DOMAIN frames : ret.all[id][1] = frames[id]
        /\ \A id \in DOMAIN sequences :
               LET k == IF id \in DOMAIN frames THEN 1 ELSE 0
                   s == SequenceFrames(sequences[id])
               IN  /\ Len(ret.all[id]) = k + Len(s)
                   /\ \A i \in 1..Len(s) : ret.all[id][k + i] = s[i]
        /\ ReturnedIn(ret.all, DOMAIN ret.all)
               = Cardinality(DOMAIN frames) + StoredIn(sequences, DOMAIN sequences)
        /\ \A id \in initial : id \in DOMAIN ret.all

\* AllFrames on a tag with pending coordinates, a sequence of two pictures and flat frames
C16_Witness ==
    /\ ret.op = "AllFrames"
    /\ initial = {"TIT2", "APIC"}
    /\ "APIC" \in DOMAIN added
    /\ Len(ret.all["APIC"]) = 2 /\ ret.all["APIC"][2] = PictureFrame("C")
    /\ "XXXX" \in DOMAIN ret.all /\ "TIT2" \in DOMAIN ret.all

\* the blocks of the frames fs of one id, one after the other
RECURSIVE BlocksOf(_, _)
BlocksOf(id, fs) ==
    IF fs = <<>> THEN <<>> ELSE DiskBlock(id, Head(fs)) \o BlocksOf(id, Tail(fs))

\* the blocks of all frames of a map, id by id in the given order of the ids
RECURSIVE BlocksInOrder(_, _)
BlocksInOrder(all, order) ==
    IF order = <<>> THEN <<>>
    ELSE BlocksOf(Head(order), all[Head(order)]) \o BlocksInOrder(all, Tail(order))

\* C17: the frame buffer Save forms and writes is, for some order of the ids, the blocks
\* of the frames AllFrames() returned: every frame is emitted once, as one contiguous
\* block, the blocks of one id next to each other in the order of its sequence
C17_EveryFrameOnceInOrder ==
    /\ pc = "header" =>
          \E order \in Orders(DOMAIN pre.all) : sv.frames = BlocksInOrder(pre.all, order)
    /\ (ret.op = "Save" /\ ret.err = "nil") =>
          \E order \in Orders(DOMAIN pre.all) :
              SubSeq(inodes[handles[file].ino].content, 11, 10 + Len(pre.frames))
                  = BlocksInOrder(pre.all, order)

\* a successful Save of a tag with a title and a sequence of two different pictures
C17_Witness ==
    /\ ret.op = "Save" /\ ret.err = "nil"
    /\ "APIC" \in DOMAIN pre.all /\ "TIT2" \in DOMAIN pre.all
    /\ pre.all["APIC"] = <<PictureFrame("A"), PictureFrame("C")>>

\* the frames Save has just handed to formFrame, with their ids
FramesUnderIds ==
    IF pc = "header"
    THEN UNION {{<<id, pre.all[id][i]>> : i \in 1..Len(pre.all[id])} : id \in DOMAIN pre.all}
    ELSE {}

\* C18: for every frame Save hands to it under an id that is not blank, formFrame(id, f)
\* is the bytes of the id, then the four bytes of the size of f.Body(), then two zero
\* bytes, then f.Body(), and nothing else; Body() is called once, the size and the body
\* come from that one value
C18_FrameBlockLayout ==
    \A p \in FramesUnderIds :
        p[1] # "" =>
            LET b == formFrame(p[1], p[2])
                n == Len(IdBytes(p[1]))
            IN  /\ ~b.panics
                /\ Len(b.bodies) = 1 /\ b.bodies[1] = Body(p[2])
                /\ n > 0
                /\ Len(b.bytes) = n + 6 + Len(b.bodies[1])
                /\ SubSeq(b.bytes, 1, n) = IdBytes(p[1])
                /\ ParseSize(SubSeq(b.bytes, n + 1, n + 4)) = Len(b.bodies[1])
                /\ SubSeq(b.bytes, n + 1, n + 4) = FormSize(Len(Body(p[2])))
                /\ b.bytes[n + 5] = 0 /\ b.bytes[n + 6] = 0
                /\ SubSeq(b.bytes, n + 7, Len(b.bytes)) = Body(p[2])

\* Save formed the buffer of a tag whose one frame is the title "cc": 4 id bytes, size 3,
\* two zero bytes, the encoding byte and the text
C18_Witness ==
    /\ nsaves > 0 /\ DOMAIN pre.all = {"TIT2"}
    /\ pre.all["TIT2"] = <<TextFrame("cc")>>
    /\ pre.frames = <<84, 73, 84, 50, 0, 0, 0, 3, 0, 0, 3, 99, 99>>
    /\ pre.frames = formFrame("TIT2", TextFrame("cc")).bytes

\* C19: the pool is invisible: whichever buffers Get hands back, the bytes formAllFrames
\* returns are those a fresh buffer for every call gives, the slice still shows them when
\* Save writes it, and the new file holds them after the header
C19_PoolIsInvisible ==
    /\ pc \in {"header", "frames"} => sv.frames = pre.frames /\ FramesNow = pre.frames
    /\ pc \in {"seek", "copy", "stat", "chmod", "rename"} =>
          SubSeq(inodes[handles[sv.newFile].ino].content, 11, 10 + Len(pre.frames))
              = pre.frames

====
